---- MODULE Spec2Model ----
(***************************************************************************)
(* Model of src/agent.py: the DeepQLearningAgent and the                   *)
(* AdvantageActorCriticAgent, their networks, optimizer binding, model     *)
(* persistence and training calls.                                         *)
(*                                                                         *)
(* A network's whole parameter set (its state_dict) is one abstract token  *)
(* of ParamVals.  A freshly constructed network (random initialisation)    *)
(* and the result of a gradient step are nondeterministic tokens.          *)
(***************************************************************************)
EXTENDS Integers, Sequences, FiniteSets, TLC

VARIABLES cls, use_target_net, net, optimizer, grad, disk, buffer, buffer_size,
          bufdisk, last, snap, td

vars == <<cls, use_target_net, net, optimizer, grad, disk, buffer, buffer_size,
          bufdisk, last, snap, td>>

(* ---------------------------------------------------------------- bounds *)

\* capacity of the Replay Store given at construction (buffer_size)
MaxCap == 2
\* largest batch_size argument passed to train_agent
MaxBatch == 3

\* n_actions: the width of a legal_moves mask and of a network's output row
NumActions == 3
\* gamma is GammaNum / GammaDen
GammaDen == 4

\* largest number of transitions in a batch whose rewards are normalised
MaxRows == 3

\* largest number of boards in one _prepare_input call
MaxBoards == 2

\* abstract parameter settings of a network
ParamVals == {"p0", "p1"}

(* ----------------------------------------------------------------- names *)

DQN == "DeepQLearningAgent"
A2C == "AdvantageActorCriticAgent"

NetNames == {"_model", "_target_net", "_full_model", "_values_model"}

\* an attribute that was never assigned / a file that does not exist
Absent == "absent"

\* the networks an agent of class c with flag t owns after reset_models
Owned(c, t) ==
    IF c = DQN
    THEN {"_model"} \cup (IF t THEN {"_target_net"} ELSE {})
    ELSE {"_model", "_full_model", "_values_model"}
             \cup (IF t THEN {"_target_net"} ELSE {})

(* ----------------------------------------------------------- persistence *)

\* the iteration arguments tried: None and the integer 0
IterArgs == {[t |-> "NoneType", v |-> 0], [t |-> "int", v |-> 0]}

\* an iteration argument that is neither None nor an int
BadIterArgs == {[t |-> "float", v |-> 0]}

\* if (iteration is not None): assert isinstance(iteration, int); were the
\* assert compiled out, "{:04d}".format(iteration) raises on the same
\* arguments while the file name is built
check_iteration_lenient(arg) == "none"

check_iteration(arg) ==
    IF arg.t \notin {"NoneType", "int"} THEN "AssertionError" ELSE "none"

\* if iteration is None, iteration = 0
IterationOf(arg) == IF arg.t = "NoneType" THEN 0 ELSE arg.v

Suffixes == {"", "_target", "_full", "_values"}

\* "{}/model_{:04d}<suffix>.pt".format(file_path, iteration): one directory,
\* the zero-padded decimal is one-to-one on integers
FileName(iteration, suffix) == <<iteration, suffix>>

Files == {FileName(IterationOf(a), s) : a \in IterArgs, s \in Suffixes}

\* torch.save(state_dict, file)
torch_save(d, file, state) == [d EXCEPT ![file] = state]

P(n, suffix) == [net |-> n, suffix |-> suffix]

\* DeepQLearningAgent.save_model: the networks written and their files
DQN_save_files(t) ==
    IF t THEN <<P("_model", ""), P("_target_net", "_target")>>
    ELSE <<P("_model", "")>>

\* DeepQLearningAgent.load_model: the networks loaded, in order
DQN_load_files(t) ==
    IF t THEN <<P("_model", ""), P("_target_net", "_target")>>
    ELSE <<P("_model", "")>>

\* AdvantageActorCriticAgent.save_model
A2C_save_files(t) ==
    IF t THEN <<P("_model", ""), P("_full_model", "_full"),
                P("_values_model", "_values"), P("_target_net", "_target")>>
    ELSE <<P("_model", ""), P("_full_model", "_full")>>

\* AdvantageActorCriticAgent.load_model
A2C_load_files_swapped(t) ==
    IF t THEN <<P("_model", ""), P("_full_model", "_full"),
                P("_values_model", "_values"), P("_target_net", "_values")>>
    ELSE <<P("_model", ""), P("_full_model", "")>>

A2C_load_files(t) ==
    IF t THEN <<P("_model", ""), P("_full_model", "_full"),
                P("_values_model", "_values"), P("_target_net", "_target")>>
    ELSE <<P("_model", ""), P("_full_model", "_full")>>

SaveFilesOf(c, t) == IF c = DQN THEN DQN_save_files(t) ELSE A2C_save_files(t)

RECURSIVE SaveAll(_, _, _, _)
SaveAll(d, nets, order, it) ==
    IF order = <<>> THEN d
    ELSE SaveAll(torch_save(d, FileName(it, Head(order).suffix), nets[Head(order).net]),
                 nets, Tail(order), it)

\* net.load_state_dict(torch.load(file)) for each file in order; torch.load
\* raises FileNotFoundError at the first missing file, and the networks
\* loaded before it keep what they were given
RECURSIVE LoadAll(_, _, _, _)
LoadAll(d, nets, order, it) ==
    IF order = <<>> THEN [nets |-> nets, err |-> "none"]
    ELSE LET f == FileName(it, Head(order).suffix)
         IN IF d[f] = Absent
            THEN [nets |-> nets, err |-> "FileNotFoundError"]
            ELSE LoadAll(d, [nets EXCEPT ![Head(order).net] = d[f]], Tail(order), it)

(* ------------------------------------------------------------- optimizer *)

\* optimizer.zero_grad() on the optimizer bound to network b
zero_grad(g, b) == IF b = Absent THEN g ELSE [g EXCEPT ![b] = FALSE]

\* loss.backward(): the loss is computed through network n only
backward(g, n) == [g EXCEPT ![n] = TRUE]

\* optimizer.step() of the optimizer bound to network b: parameters whose
\* gradient is None are skipped
optimizer_step(nets, g, b, v) ==
    IF b # Absent /\ g[b] THEN [nets EXCEPT ![b] = v] ELSE nets

(* ---------------------------------------------------------- Replay Store *)

\* ReplayBufferNumpy.sample(batch_size)
sample(buf, batch_size) ==
    IF batch_size > buf.size THEN "InsufficientDataError" ELSE "none"

\* ReplayBufferNumpy.get_current_size(): the occupancy
get_current_size(buf) == buf.size

\* ReplayBufferNumpy.add_to_buffer: ring buffer, occupancy capped at capacity
buffer_add(buf) ==
    [buf EXCEPT !.size = IF buf.size < buf.capacity THEN buf.size + 1 ELSE buf.capacity]

\* ReplayBufferNumpy(buffer_size, ...): an empty store of that capacity
new_buffer(capacity) == [capacity |-> capacity, size |-> 0]

\* "{}/buffer_{:04d}".format(file_path, iteration)
BufferFileName(iteration) == iteration

BufferFiles == {BufferFileName(IterationOf(a)) : a \in IterArgs}

NoBufferFile == [exists |-> FALSE, obj |-> new_buffer(0)]

\* pickle.dump(self._buffer, f)
pickle_dump(d, file, obj) == [d EXCEPT ![file] = [exists |-> TRUE, obj |-> obj]]

\* open(file, 'rb') and pickle.load(f): open raises before _buffer is assigned
load_buffer_result(d, file, buf) ==
    IF d[file].exists
    THEN [buffer |-> d[file].obj, err |-> "none"]
    ELSE [buffer |-> buf, err |-> "FileNotFoundError"]

(* ------------------------------------------------------- operation record *)

NoOp ==
    [op |-> "init", ok |-> TRUE, err |-> "none", batch_size |-> 0,
     sampled |-> 0, stepped |-> Absent, s_src |-> Absent,
     next_src |-> Absent, updated |-> FALSE, repeat |-> FALSE, bad_iter |-> FALSE]

NoSnap == [valid |-> FALSE, net |-> [n \in NetNames |-> Absent]]

TdIdle == [pc |-> "idle"]

(* ------------------------------------------------------------------ Init *)

\* what an earlier run of the same agent class, with either value of the
\* target-network flag, can have left in the directory
EarlierDisk(c) ==
    {[f \in Files |-> Absent]} \cup
    {d \in [Files -> ParamVals \cup {Absent}] :
        \E t \in BOOLEAN :
            \A f \in Files :
                d[f] # Absent <=> \E i \in 1..Len(SaveFilesOf(c, t)) :
                                     f = FileName(0, SaveFilesOf(c, t)[i].suffix)}

\* DeepQLearningAgent.update_target_net: m_dict and t_dict are the
\* dictionaries state_dict() returns; the loop rebinds the entries of the
\* local t_dict and nothing is loaded back into the target network
DQN_update_target_net_params_blend(nets, t) ==
    IF t
    THEN [nets EXCEPT !["_target_net"] = IF @ = "p0" THEN "p1" ELSE "p0"]
    ELSE nets

DQN_update_target_net_params(nets, t) ==
    IF t
    THEN LET m_dict == nets["_model"]
             t_dict == m_dict
         IN nets
    ELSE nets

\* AdvantageActorCriticAgent.update_target_net: the same loop over the
\* dictionaries of _model and _target_net
A2C_update_target_net_params(nets, t) ==
    IF t
    THEN LET model_dict == nets["_model"]
             target_dict == model_dict
         IN nets
    ELSE nets

\* self.optimizer after DeepQLearningAgent.reset_models: every _agent_model()
\* call rebinds it to the network it has just built, and with a target
\* network the last network built is _target_net
agent_model_optimizer(t) == IF t THEN "_target_net" ELSE "_model"

Init ==
    /\ cls \in {DQN, A2C}
    /\ use_target_net \in BOOLEAN
    /\ net \in [NetNames -> ParamVals \cup {Absent}]
    /\ \A n \in NetNames : net[n] # Absent <=> n \in Owned(cls, use_target_net)
    /\ optimizer = IF cls = DQN THEN agent_model_optimizer(use_target_net) ELSE Absent
    /\ grad = [n \in NetNames |-> FALSE]
    /\ disk \in EarlierDisk(cls)
    /\ buffer_size = MaxCap
    /\ buffer = new_buffer(buffer_size)
    /\ bufdisk = [f \in BufferFiles |-> NoBufferFile]
    /\ last = NoOp
    /\ snap = NoSnap
    /\ td = TdIdle

(* --------------------------------------------------------------- actions *)

Rec(op, err) == [NoOp EXCEPT !.op = op, !.ok = (err = "none"), !.err = err]

\* a persistence call that raised on its iteration argument
rejected(op, iteration) ==
    /\ last' = [Rec(op, check_iteration(iteration)) EXCEPT !.bad_iter = TRUE]
    /\ snap' = NoSnap
    /\ UNCHANGED <<cls, use_target_net, net, optimizer, grad, disk, buffer,
                   buffer_size, bufdisk, td>>

\* DeepQLearningAgent.reset_models: _agent_model() builds the network and
\* binds self.optimizer to it, once for _model and once more for _target_net
DQN_reset_models ==
    /\ cls = DQN
    /\ \E m \in ParamVals, t \in ParamVals :
          LET n1 == [net EXCEPT !["_model"] = m]
              n2 == IF use_target_net THEN [n1 EXCEPT !["_target_net"] = t] ELSE n1
          IN net' = DQN_update_target_net_params(n2, use_target_net)
    /\ optimizer' = agent_model_optimizer(use_target_net)
    /\ grad' = [n \in NetNames |-> FALSE]
    /\ last' = [Rec("reset_models", "none") EXCEPT !.updated = (net' # net)]
    /\ snap' = NoSnap
    /\ UNCHANGED <<cls, use_target_net, disk, buffer, buffer_size, bufdisk, td>>

\* AdvantageActorCriticAgent.reset_models: three separately constructed
\* AAC_CNN networks, and a fourth for the target
A2C_reset_models ==
    /\ cls = A2C
    /\ \E m \in ParamVals, f \in ParamVals, v \in ParamVals, t \in ParamVals :
          LET n1 == [net EXCEPT !["_model"] = m, !["_full_model"] = f,
                                !["_values_model"] = v]
              n2 == IF use_target_net THEN [n1 EXCEPT !["_target_net"] = t] ELSE n1
          IN net' = A2C_update_target_net_params(n2, use_target_net)
    /\ grad' = [n \in NetNames |-> FALSE]
    /\ last' = [Rec("reset_models", "none") EXCEPT !.updated = (net' # net)]
    /\ snap' = NoSnap
    /\ UNCHANGED <<cls, use_target_net, optimizer, disk, buffer, buffer_size,
                   bufdisk, td>>

DQN_update_target_net ==
    /\ cls = DQN
    /\ net' = DQN_update_target_net_params(net, use_target_net)
    /\ last' = [Rec("update_target_net", "none") EXCEPT
                    !.updated = (net' # net),
                    !.repeat = (last.op = "update_target_net")]
    /\ UNCHANGED <<cls, use_target_net, optimizer, grad, disk, buffer, buffer_size,
                   bufdisk, snap, td>>

A2C_update_target_net ==
    /\ cls = A2C
    /\ net' = A2C_update_target_net_params(net, use_target_net)
    /\ last' = [Rec("update_target_net", "none") EXCEPT
                    !.updated = (net' # net),
                    !.repeat = (last.op = "update_target_net")]
    /\ UNCHANGED <<cls, use_target_net, optimizer, grad, disk, buffer, buffer_size,
                   bufdisk, snap, td>>

add_to_buffer ==
    /\ buffer' = buffer_add(buffer)
    /\ last' = Rec("add_to_buffer", "none")
    /\ snap' = NoSnap
    /\ UNCHANGED <<cls, use_target_net, net, optimizer, grad, disk, buffer_size,
                   bufdisk, td>>

\* the network train_agent takes the bootstrap values of the next state from
bootstrap_source(t) == IF t THEN "_target_net" ELSE "_model"

\* DeepQLearningAgent.train_agent on the agent's state: the sample comes
\* first and its error leaves the call; otherwise zero_grad and step are
\* those of self.optimizer, and backward fills the gradients of _model, the
\* network the loss was computed through
DQN_train_stepFirst(nets, g, opt, buf, batch_size, v) ==
    LET g1 == backward(zero_grad(g, opt), "_model")
    IN [net |-> optimizer_step(nets, g1, opt, v), grad |-> g1,
        err |-> sample(buf, batch_size)]

DQN_train(nets, g, opt, buf, batch_size, v) ==
    LET err == sample(buf, batch_size)
        g0 == zero_grad(g, opt)
        g1 == backward(g0, "_model")
    IN IF err # "none"
       THEN [net |-> nets, grad |-> g, err |-> err]
       ELSE [net |-> optimizer_step(nets, g1, opt, v), grad |-> g1, err |-> "none"]

DQN_train_agent ==
    /\ cls = DQN
    /\ \E batch_size \in 1..MaxBatch, v \in ParamVals :
          LET r == DQN_train(net, grad, optimizer, buffer, batch_size, v)
          IN /\ net' = r.net
             /\ grad' = r.grad
             /\ last' = [Rec("train_agent", r.err) EXCEPT
                            !.batch_size = batch_size, !.sampled = batch_size,
                            !.stepped = IF r.err = "none" THEN optimizer ELSE Absent,
                            !.next_src = IF r.err = "none"
                                         THEN bootstrap_source(use_target_net)
                                         ELSE Absent,
                            !.s_src = IF r.err = "none" THEN "_model" ELSE Absent,
                            !.updated = (net' # net)]
    /\ UNCHANGED <<cls, use_target_net, optimizer, disk, buffer, buffer_size, bufdisk,
                   snap, td>>

\* the network V(s') is taken from in AdvantageActorCriticAgent.train_agent
next_value_source_live(t) == "_values_model"

next_value_source(t) == IF t THEN "_target_net" ELSE "_values_model"

\* the network V(s) is taken from
value_source(t) == "_values_model"

\* model = self._full_model; optimizer = RMSprop(model.parameters())
train_model_target == "_target_net"

train_model == "_full_model"

\* the size train_agent asks the store for:
\* self._buffer.sample(self._buffer.get_current_size())
a2c_batch_argument(buf, batch_size) == batch_size

a2c_batch(buf, batch_size) == get_current_size(buf)

\* AdvantageActorCriticAgent.train_agent: the whole buffer is the batch, the
\* optimizer is built in the call over model.parameters()
A2C_train_agent ==
    /\ cls = A2C
    /\ \E batch_size \in 1..MaxBatch, v \in ParamVals :
          LET n == a2c_batch(buffer, batch_size)
              err == sample(buffer, n)
              model == train_model
              g0 == zero_grad(grad, model)
              g1 == backward(g0, model)
          IN /\ grad' = g1
             /\ net' = optimizer_step(net, g1, model, v)
             /\ last' = [Rec("train_agent", err) EXCEPT
                            !.batch_size = batch_size, !.sampled = n,
                            !.stepped = model,
                            !.next_src = next_value_source(use_target_net),
                            !.s_src = value_source(use_target_net),
                            !.updated = (net' # net)]
    /\ UNCHANGED <<cls, use_target_net, optimizer, disk, buffer, buffer_size, bufdisk,
                   snap, td>>

DQN_save_model ==
    /\ cls = DQN
    /\ \E iteration \in IterArgs \cup BadIterArgs :
          IF check_iteration(iteration) # "none"
          THEN rejected("save_model", iteration)
          ELSE /\ disk' = SaveAll(disk, net, DQN_save_files(use_target_net),
                                  IterationOf(iteration))
               /\ last' = [Rec("save_model", "none") EXCEPT
                               !.bad_iter = (iteration \in BadIterArgs)]
               /\ snap' = [valid |-> TRUE, net |-> net]
               /\ UNCHANGED <<cls, use_target_net, net, optimizer, grad, buffer,
                              buffer_size, bufdisk, td>>

A2C_save_model ==
    /\ cls = A2C
    /\ \E iteration \in IterArgs \cup BadIterArgs :
          IF check_iteration(iteration) # "none"
          THEN rejected("save_model", iteration)
          ELSE /\ disk' = SaveAll(disk, net, A2C_save_files(use_target_net),
                                  IterationOf(iteration))
               /\ last' = [Rec("save_model", "none") EXCEPT
                               !.bad_iter = (iteration \in BadIterArgs)]
               /\ snap' = [valid |-> TRUE, net |-> net]
               /\ UNCHANGED <<cls, use_target_net, net, optimizer, grad, buffer,
                              buffer_size, bufdisk, td>>

\* the snapshot taken at save_model stays comparable through training,
\* synchronisation and complete loads only
DQN_load_model ==
    /\ cls = DQN
    /\ \E iteration \in IterArgs \cup BadIterArgs :
          IF check_iteration(iteration) # "none"
          THEN rejected("load_model", iteration)
          ELSE LET r == LoadAll(disk, net, DQN_load_files(use_target_net),
                                IterationOf(iteration))
               IN /\ net' = r.nets
                  /\ last' = [Rec("load_model", r.err) EXCEPT
                                  !.updated = (net' # net),
                                  !.bad_iter = (iteration \in BadIterArgs)]
                  /\ snap' = IF r.err = "none" THEN snap ELSE NoSnap
                  /\ UNCHANGED <<cls, use_target_net, optimizer, grad, disk,
                                 buffer, buffer_size, bufdisk, td>>

A2C_load_model ==
    /\ cls = A2C
    /\ \E iteration \in IterArgs \cup BadIterArgs :
          IF check_iteration(iteration) # "none"
          THEN rejected("load_model", iteration)
          ELSE LET r == LoadAll(disk, net, A2C_load_files(use_target_net),
                                IterationOf(iteration))
               IN /\ net' = r.nets
                  /\ last' = [Rec("load_model", r.err) EXCEPT
                                  !.updated = (net' # net),
                                  !.bad_iter = (iteration \in BadIterArgs)]
                  /\ snap' = IF r.err = "none" THEN snap ELSE NoSnap
                  /\ UNCHANGED <<cls, use_target_net, optimizer, grad, disk,
                                 buffer, buffer_size, bufdisk, td>>

\* Agent.reset_buffer(buffer_size=None)
reset_buffer ==
    /\ buffer' = new_buffer(buffer_size)
    /\ last' = Rec("reset_buffer", "none")
    /\ snap' = NoSnap
    /\ UNCHANGED <<cls, use_target_net, net, optimizer, grad, disk, buffer_size,
                   bufdisk, td>>

\* Agent.save_buffer
save_buffer ==
    \E iteration \in IterArgs \cup BadIterArgs :
       IF check_iteration(iteration) # "none"
       THEN rejected("save_buffer", iteration)
       ELSE /\ bufdisk' = pickle_dump(bufdisk, BufferFileName(IterationOf(iteration)),
                                      buffer)
            /\ last' = [Rec("save_buffer", "none") EXCEPT
                            !.bad_iter = (iteration \in BadIterArgs)]
            /\ snap' = NoSnap
            /\ UNCHANGED <<cls, use_target_net, net, optimizer, grad, disk, buffer,
                           buffer_size, td>>

\* Agent.load_buffer
load_buffer ==
    \E iteration \in IterArgs \cup BadIterArgs :
       IF check_iteration(iteration) # "none"
       THEN rejected("load_buffer", iteration)
       ELSE LET r == load_buffer_result(bufdisk,
                                        BufferFileName(IterationOf(iteration)), buffer)
            IN /\ buffer' = r.buffer
               /\ last' = [Rec("load_buffer", r.err) EXCEPT
                               !.updated = (buffer' # buffer),
                               !.bad_iter = (iteration \in BadIterArgs)]
               /\ snap' = NoSnap
               /\ UNCHANGED <<cls, use_target_net, net, optimizer, grad, disk,
                              buffer_size, bufdisk, td>>

Next ==
    \/ DQN_reset_models
    \/ A2C_reset_models
    \/ DQN_update_target_net
    \/ A2C_update_target_net
    \/ add_to_buffer
    \/ reset_buffer
    \/ save_buffer
    \/ load_buffer
    \/ DQN_train_agent
    \/ A2C_train_agent
    \/ DQN_save_model
    \/ A2C_save_model
    \/ DQN_load_model
    \/ A2C_load_model

Spec == Init /\ [][Next]_vars

(* ------------------------------------------- the Q-learning target (rows) *)

\* floating-point values: a finite number, -inf or NaN
Fin(v) == [k |-> "fin", v |-> v]
NegInf == [k |-> "ninf", v |-> 0]
NaN == [k |-> "nan", v |-> 0]

Actions == 1..NumActions

\* rewards, network outputs (multiples of GammaDen, so that gamma * q is exact)
\* and discount factors tried
Rewards == {-2, 0, 1}
QVals == {-GammaDen, 0, GammaDen}
Gammas == {1, GammaDen - 1}

\* np.sign(r)
sign(r) == IF r > 0 THEN 1 ELSE IF r < 0 THEN -1 ELSE 0

\* np.where(legal_moves == 1, next_model_outputs, -np.inf), one row
masked_outputs_unmasked(legal_moves, outputs) ==
    [a \in Actions |-> Fin(outputs[a])]

masked_outputs(legal_moves, outputs) ==
    [a \in Actions |-> IF legal_moves[a] = 1 THEN Fin(outputs[a]) ELSE NegInf]

\* the larger of two values, neither NaN
fmax(x, y) ==
    IF x.k = "ninf" THEN y
    ELSE IF y.k = "ninf" THEN x
    ELSE IF x.v >= y.v THEN x ELSE y

\* np.max(row, axis=1), one row
RECURSIVE row_max(_, _)
row_max(row, n) == IF n = 1 THEN row[1] ELSE fmax(row_max(row, n - 1), row[n])

\* self._gamma * x, gamma = num / GammaDen > 0
times_gamma(num, x) ==
    IF x.k = "fin" THEN Fin((num * x.v) \div GammaDen) ELSE x

\* x * m for an integer m >= 0: -inf * 0 is NaN
times(x, m) ==
    IF x.k = "fin" THEN Fin(x.v * m)
    ELSE IF x.k = "ninf" THEN (IF m = 0 THEN NaN ELSE NegInf)
    ELSE NaN

\* r + x for a finite r
plus(r, x) == IF x.k = "fin" THEN Fin(r + x.v) ELSE x

\* r + (gamma * max(where(legal_moves == 1, next_q, -inf))) * (1 - done)
discounted_reward(r, gamma, legal_moves, next_q, done) ==
    plus(r, times(times_gamma(gamma, row_max(masked_outputs(legal_moves, next_q),
                                             NumActions)),
                  1 - done))

\* one sampled transition and the outputs of the bootstrap network on its
\* next_state
TdInputs ==
    [pc : {"sampled"}, r : Rewards, done : {0, 1},
     legal_moves : [Actions -> {0, 1}], next_q : [Actions -> QVals],
     gamma : Gammas, reward_clip : BOOLEAN,
     clipped : {0}, boot : {NaN}, discounted_reward : {NaN}]

InitTD ==
    /\ cls = DQN
    /\ use_target_net = TRUE
    /\ net = [n \in NetNames |-> IF n \in Owned(DQN, TRUE) THEN "p0" ELSE Absent]
    /\ optimizer = agent_model_optimizer(TRUE)
    /\ grad = [n \in NetNames |-> FALSE]
    /\ disk = [f \in Files |-> Absent]
    /\ buffer_size = MaxCap
    /\ buffer = new_buffer(buffer_size)
    /\ bufdisk = [f \in BufferFiles |-> NoBufferFile]
    /\ last = NoOp
    /\ snap = NoSnap
    /\ td \in TdInputs

\* DeepQLearningAgent.train_agent, the target of one row of the batch
train_agent_target ==
    /\ td.pc = "sampled"
    /\ LET r == IF td.reward_clip THEN sign(td.r) ELSE td.r
       IN td' = [td EXCEPT
                    !.pc = "done",
                    !.clipped = r,
                    !.boot = row_max(masked_outputs(td.legal_moves, td.next_q),
                                     NumActions),
                    !.discounted_reward =
                        discounted_reward(r, td.gamma, td.legal_moves, td.next_q,
                                          td.done)]
    /\ UNCHANGED <<cls, use_target_net, net, optimizer, grad, disk, buffer,
                   buffer_size, bufdisk, last, snap>>

NextTD == train_agent_target

SpecTD == InitTD /\ [][NextTD]_vars

(* ------------------------------- reward normalisation (actor-critic) *)

\* the agent's own state while one computation of a training call, of
\* _prepare_input or of move is followed on its own
Frozen ==
    /\ cls = DQN
    /\ use_target_net = TRUE
    /\ net = [n \in NetNames |-> IF n \in Owned(DQN, TRUE) THEN "p0" ELSE Absent]
    /\ optimizer = agent_model_optimizer(TRUE)
    /\ grad = [n \in NetNames |-> FALSE]
    /\ disk = [f \in Files |-> Absent]
    /\ buffer_size = MaxCap
    /\ buffer = new_buffer(buffer_size)
    /\ bufdisk = [f \in BufferFiles |-> NoBufferFile]
    /\ last = NoOp
    /\ snap = NoSnap

RECURSIVE SumSeq(_)
SumSeq(q) == IF q = <<>> THEN 0 ELSE Head(q) + SumSeq(Tail(q))

\* (r == r[0][0]).sum() == r.shape[0]
all_same_never(r) == FALSE

all_same(r) == Cardinality({i \in 1..Len(r) : r[i] = r[1]}) = Len(r)

\* a normalised reward num / sqrt(den_sq), kept exact
Q(num, den_sq) == [num |-> num, den_sq |-> den_sq]

\* Len(r)^2 times the variance of r: np.std(r) is zero exactly when it is
std_sq(r) == Len(r) * SumSeq([i \in 1..Len(r) |-> r[i] * r[i]]) - SumSeq(r) * SumSeq(r)

\* r -= r
minus_self(r) == [i \in 1..Len(r) |-> Q(r[i] - r[i], 1)]

\* (r - np.mean(r)) / np.std(r), numerator and denominator both times Len(r)
standardize(r) == [i \in 1..Len(r) |-> Q(Len(r) * r[i] - SumSeq(r), std_sq(r))]

\* the normalize_rewards branch of train_agent
normalize(r) ==
    IF all_same(r)
    THEN [out |-> minus_self(r), divided |-> FALSE, divisor_sq |-> 0]
    ELSE [out |-> standardize(r), divided |-> TRUE, divisor_sq |-> std_sq(r)]

NormInputs ==
    [pc : {"sampled"}, r : UNION {[1..n -> Rewards] : n \in 1..MaxRows},
     normalize_rewards : BOOLEAN, reward_clip : BOOLEAN,
     out : {<<>>}, divided : {FALSE}, divisor_sq : {0}]

InitNorm == Frozen /\ td \in NormInputs

\* AdvantageActorCriticAgent.train_agent, the rewards of the batch before
\* they enter the advantage
train_agent_rewards ==
    /\ td.pc = "sampled"
    /\ LET n == IF td.normalize_rewards
                THEN normalize(td.r)
                ELSE [out |-> [i \in 1..Len(td.r) |-> Q(td.r[i], 1)],
                      divided |-> FALSE, divisor_sq |-> 0]
           clip(x) == IF td.reward_clip /\ x.den_sq > 0 THEN Q(sign(x.num), 1) ELSE x
       IN td' = [td EXCEPT !.pc = "done",
                           !.out = [i \in 1..Len(td.r) |-> clip(n.out[i])],
                           !.divided = n.divided,
                           !.divisor_sq = n.divisor_sq]
    /\ UNCHANGED <<cls, use_target_net, net, optimizer, grad, disk, buffer,
                   buffer_size, bufdisk, last, snap>>

NextNorm == train_agent_rewards

SpecNorm == InitNorm /\ [][NextNorm]_vars

(* ------------------------------------------------------- _prepare_input *)

\* self._input_shape: (board_size, board_size, n_frames)
input_shape == <<1, 2, 2>>

\* the values of a board cell
CellVals == {0, 3}

RECURSIVE Prod(_)
Prod(q) == IF q = <<>> THEN 1 ELSE Head(q) * Prod(Tail(q))

\* an ndarray is a view [store, shape, strides] of a storage of the heap; a
\* storage is [dtype, data], a float32 cell holding its value in quarters
ndim(a) == Len(a.shape)

c_strides(shape) == [k \in 1..Len(shape) |-> Prod(SubSeq(shape, k + 1, Len(shape)))]

offset(strides, ix) == SumSeq([k \in 1..Len(ix) |-> ix[k] * strides[k]])

at(heap, a, ix) == heap[a.store].data[1 + offset(a.strides, ix)]

\* the index of the p-th cell of an array of this shape, in C order
index_of(shape, p) ==
    [k \in 1..Len(shape) |-> ((p - 1) \div c_strides(shape)[k]) % shape[k]]

\* the cells of an array in C order
cells(heap, a) == [p \in 1..Prod(a.shape) |-> at(heap, a, index_of(a.shape, p))]

\* the logical contents of an array
contents(heap, a) ==
    [dtype |-> heap[a.store].dtype, shape |-> a.shape, cells |-> cells(heap, a)]

\* a newly allocated C-contiguous array of the shape of a holding data
new_array(heap, a, dtype, data) ==
    [heap |-> Append(heap, [dtype |-> dtype, data |-> data]),
     a |-> [store |-> Len(heap) + 1, shape |-> a.shape,
            strides |-> c_strides(a.shape)]]

\* board.reshape(shape) of a C-contiguous board: a view of the same storage
reshape(a, shape) == [store |-> a.store, shape |-> shape, strides |-> c_strides(shape)]

\* np.rollaxis(board, 3, 1): a view with axis 3 moved in front of axis 1
rollaxis_3_1(a) ==
    [store |-> a.store,
     shape |-> <<a.shape[1], a.shape[4], a.shape[2], a.shape[3]>>,
     strides |-> <<a.strides[1], a.strides[4], a.strides[2], a.strides[3]>>]

copy(heap, a) == new_array(heap, a, heap[a.store].dtype, cells(heap, a))

\* board.astype(np.float32)
astype_float32(heap, a) ==
    LET quarters(v) == IF heap[a.store].dtype = "float32" THEN v ELSE 4 * v
    IN new_array(heap, a, "float32",
                 [p \in 1..Prod(a.shape) |-> quarters(cells(heap, a)[p])])

\* board / 4.0 of a float32 array
div4(heap, a) ==
    new_array(heap, a, "float32",
              [p \in 1..Prod(a.shape) |-> cells(heap, a)[p] \div 4])

normalize_board(heap, board) ==
    LET f == astype_float32(heap, board)
    IN div4(f.heap, f.a)

\* a variant that scales the storage it is handed and returns views of it
prepare_input_inplace(heap, board) ==
    LET b1 == IF ndim(board) = 3 THEN reshape(board, <<1>> \o input_shape) ELSE board
        b2 == rollaxis_3_1(b1)
        scaled == [heap EXCEPT ![b2.store].data = [p \in DOMAIN @ |-> 4 * @[p]]]
    IN [heap |-> scaled, a |-> b2]

prepare_input(heap, board) ==
    LET b1 == IF ndim(board) = 3 THEN reshape(board, <<1>> \o input_shape) ELSE board
        b2 == rollaxis_3_1(b1)
        c1 == copy(heap, b2)
        n == normalize_board(c1.heap, c1.a)
    IN copy(n.heap, n.a)

\* the caller's array: one board (rank 3) or a batch of boards (rank 4)
BoardShapes == {input_shape} \cup {<<b>> \o input_shape : b \in 1..MaxBoards}

NoArray == [store |-> 0, shape |-> <<>>, strides |-> <<>>]

PrepInputs ==
    UNION {
        {[pc |-> "start",
          heap |-> <<[dtype |-> "int", data |-> d]>>,
          before |-> d,
          board |-> [store |-> 1, shape |-> sh, strides |-> c_strides(sh)],
          out1 |-> NoArray, out2 |-> NoArray] :
            d \in [1..Prod(sh) -> CellVals]} :
        sh \in BoardShapes}

InitPrep == Frozen /\ td \in PrepInputs

\* one call self._prepare_input(board) on the caller's array
call_prepare_input ==
    /\ td.pc \in {"start", "once"}
    /\ LET r == prepare_input(td.heap, td.board)
       IN td' = IF td.pc = "start"
                THEN [td EXCEPT !.pc = "once", !.heap = r.heap, !.out1 = r.a]
                ELSE [td EXCEPT !.pc = "twice", !.heap = r.heap, !.out2 = r.a]
    /\ UNCHANGED <<cls, use_target_net, net, optimizer, grad, disk, buffer,
                   buffer_size, bufdisk, last, snap>>

NextPrep == call_prepare_input

SpecPrep == InitPrep /\ [][NextPrep]_vars

(* ------------------------------------------- the buffer and its capacity *)

\* Agent.reset_buffer(buffer_size): records the new capacity and replaces
\* the store by an empty one of that capacity
reset_buffer_to_size ==
    /\ \E size \in 1..MaxCap :
          /\ buffer_size' = size
          /\ buffer' = new_buffer(buffer_size')
    /\ last' = Rec("reset_buffer", "none")
    /\ snap' = NoSnap
    /\ UNCHANGED <<cls, use_target_net, net, optimizer, grad, disk, bufdisk, td>>

InitBuf == Frozen /\ td = TdIdle

NextBuf ==
    \/ reset_buffer
    \/ reset_buffer_to_size
    \/ add_to_buffer
    \/ save_buffer
    \/ load_buffer

SpecBuf == InitBuf /\ [][NextBuf]_vars

(* ------------------------------------------------------------------ move *)

\* the outputs of self._model tried for one action
MoveOutputs == {-1, 2}

\* the numbers of boards tried in one move call
MoveRows == {1, 2}

\* np.argmax(row): the 0-based index of the first largest entry
argmax(row) ==
    (CHOOSE a \in Actions :
        /\ row[a] = row_max(row, NumActions)
        /\ \A b \in 1..(a - 1) : row[b] # row_max(row, NumActions)) - 1

\* np.argmax(np.where(legal_moves == 1, model_outputs, -np.inf), axis=1)
move_unmasked(legal_moves, model_outputs) ==
    [i \in 1..Len(model_outputs) |->
        argmax(masked_outputs_unmasked(legal_moves[i], model_outputs[i]))]

move(legal_moves, model_outputs) ==
    [i \in 1..Len(model_outputs) |->
        argmax(masked_outputs(legal_moves[i], model_outputs[i]))]

MoveInputs ==
    UNION {[pc : {"called"},
            legal_moves : [1..n -> [Actions -> {0, 1}]],
            model_outputs : [1..n -> [Actions -> MoveOutputs]],
            action : {<<>>}] : n \in MoveRows}

InitMove == Frozen /\ td \in MoveInputs

\* DeepQLearningAgent.move on a batch of boards, given the model's outputs
call_move ==
    /\ td.pc = "called"
    /\ td' = [td EXCEPT !.pc = "done",
                        !.action = move(td.legal_moves, td.model_outputs)]
    /\ UNCHANGED <<cls, use_target_net, net, optimizer, grad, disk, buffer,
                   buffer_size, bufdisk, last, snap>>

NextMove == call_move

SpecMove == InitMove /\ [][NextMove]_vars

(* ---------------------------------------------------------------- claims *)

TrainDone == last.op = "train_agent" /\ last.ok

\* C1: with target-network mode enabled, after update_target_net() returns
\* (called directly, or as the last step of reset_models) the parameters of
\* _target_net are those of the live _model.
C1_TargetHoldsLiveAfterSync ==
    (use_target_net /\ last.op \in {"update_target_net", "reset_models"})
        => net["_target_net"] = net["_model"]

\* C2: every successful DeepQLearningAgent.train_agent steps an optimizer
\* that is bound to the parameters of _model, with and without a target
\* network.
C2_StepIsOnLiveModel ==
    (cls = DQN /\ TrainDone) => last.stepped = "_model"

\* C3: in the actor-critic agent, after construction and after train_agent
\* calls, the logits-only and the value-only networks hold the parameters of
\* the combined network the gradient step updates.
C3_ViewsShareParameters ==
    (cls = A2C /\ last.op \in {"init", "train_agent"})
        => /\ net["_model"] = net["_full_model"]
           /\ net["_values_model"] = net["_full_model"]

\* C5: a load_model or load_buffer call that fails on a missing file leaves
\* every network's parameters and the live Replay Store as they were.
C5_FailedLoadChangesNothing ==
    [][(last'.op \in {"load_model", "load_buffer"} /\ last'.err = "FileNotFoundError")
          => (net' = net /\ buffer' = buffer)]_vars

\* C6: save_model, then training and synchronisation calls, then load_model
\* of the same iteration: every network the agent owns holds the parameters
\* it had when it was saved.
C6_LoadRestoresSaved ==
    (last.op = "load_model" /\ last.ok /\ snap.valid)
        => \A n \in Owned(cls, use_target_net) : net[n] = snap.net[n]

\* a load that undid what training had changed since the save
C6_Witness ==
    /\ last.op = "load_model" /\ last.ok /\ snap.valid /\ last.updated
    /\ buffer.size > 0
    /\ \E n \in Owned(cls, use_target_net) : grad[n]

\* C7 as stated: in AdvantageActorCriticAgent.train_agent V(s) and V(s')
\* come from the same network, the target network when target-network mode
\* is enabled and the live value network when it is not.
C7_SameValueSource ==
    (cls = A2C /\ last.op = "train_agent")
        => /\ last.s_src = last.next_src
           /\ last.next_src = IF use_target_net THEN "_target_net" ELSE "_values_model"

\* C7 amended: V(s') comes from the target network when target-network mode
\* is enabled and from the live value network when it is not; V(s) always
\* comes from the live value network.
C7_ValueSources ==
    (cls = A2C /\ last.op = "train_agent")
        => /\ last.next_src = IF use_target_net THEN "_target_net" ELSE "_values_model"
           /\ last.s_src = "_values_model"

C7_Witness == cls = A2C /\ last.op = "train_agent" /\ use_target_net /\ buffer.size > 0

\* C8: no train_agent call of either agent changes a parameter of the
\* target network.
C8_TrainLeavesTarget ==
    [][last'.op = "train_agent" => net'["_target_net"] = net["_target_net"]]_vars

\* a training call that changed the live network while a target network exists
C8_Witness == use_target_net /\ TrainDone /\ last.updated /\ buffer.size > 0

\* C10: DeepQLearningAgent.train_agent(batch_size) on a store holding fewer
\* than batch_size transitions ends with the store's sampling error, and the
\* networks, the gradients, the optimizer and the buffer are as before.
C10_ShortBufferNoStep ==
    [][(cls = DQN /\ last'.op = "train_agent" /\ last'.batch_size > buffer.size)
          => /\ last'.err = "InsufficientDataError"
             /\ UNCHANGED <<net, grad, optimizer, buffer>>]_vars

\* the failing call came after a training call that had worked
C10_Witness ==
    /\ cls = DQN /\ last.op = "train_agent" /\ last.err = "InsufficientDataError"
    /\ buffer.size > 0 /\ grad["_model"]

Legal(a) == td.legal_moves[a] = 1

\* C4: for a transition with done = 1 the discounted reward is the
\* (possibly sign-clipped) reward itself, whatever gamma, the outputs on
\* next_state and the legal_moves mask, the all-zero mask included.
C4_TerminalTargetIsReward ==
    (td.pc = "done" /\ td.done = 1) => td.discounted_reward = Fin(td.clipped)

\* C9: when the legal_moves mask has a set bit and a zero, the bootstrap
\* value is the output of a legal action, the largest among the legal ones.
C9_BootstrapIsLegal ==
    (td.pc = "done" /\ (\E a \in Actions : Legal(a)) /\ (\E a \in Actions : ~Legal(a)))
        => \E a \in Actions :
              /\ Legal(a)
              /\ td.boot = Fin(td.next_q[a])
              /\ \A b \in Actions : Legal(b) => td.next_q[b] <= td.next_q[a]

\* a masked-out action has the strictly largest raw output
C9_Witness ==
    /\ td.pc = "done"
    /\ \E a \in Actions : Legal(a)
    /\ \E b \in Actions :
          ~Legal(b) /\ \A a \in Actions : a # b => td.next_q[b] > td.next_q[a]

\* C11: every AdvantageActorCriticAgent.train_agent call asks the Replay
\* Store for a batch of exactly its current occupancy, whatever batch_size
\* it was given.
C11_BatchIsOccupancy ==
    (cls = A2C /\ last.op = "train_agent") => last.sampled = buffer.size

\* a call whose batch_size argument differs from the occupancy
C11_Witness ==
    /\ cls = A2C /\ last.op = "train_agent"
    /\ buffer.size > 0 /\ last.batch_size # buffer.size

\* C12: with normalize_rewards, a non-empty batch whose rewards are all the
\* same value gets all-zero rewards and no division happens; every other
\* batch is divided by a standard deviation that is not zero.
C12_ZeroVarianceGuard ==
    (td.pc = "done" /\ td.normalize_rewards)
        => IF \A i, j \in 1..Len(td.r) : td.r[i] = td.r[j]
           THEN /\ ~td.divided
                /\ \A i \in 1..Len(td.r) : td.out[i].num = 0 /\ td.out[i].den_sq # 0
           ELSE td.divided /\ td.divisor_sq # 0

\* a batch of several equal non-zero rewards
C12_Witness ==
    /\ td.pc = "done" /\ td.normalize_rewards /\ Len(td.r) > 1
    /\ \A i \in 1..Len(td.r) : td.r[i] = td.r[1] /\ td.r[i] # 0

\* C13: an update_target_net call that directly follows another one, with no
\* train_agent, reset_models or load_model call between them, leaves the
\* Target Approximator's parameters as the first call left them.
C13_SyncTwiceSameTarget ==
    [][(last.op = "update_target_net" /\ last'.op = "update_target_net"
            /\ last'.repeat)
        => net'["_target_net"] = net["_target_net"]]_vars

\* the second of two calls in a row has returned, on an agent with a target
C13_Witness ==
    /\ use_target_net /\ cls = DQN
    /\ last.op = "update_target_net" /\ last.repeat

\* C14: _prepare_input leaves the array it is given as it was, for one board
\* and for a batch; two calls on the same array return equal arrays; and a
\* returned array has no storage in common with the caller's array.
C14_PrepareInputIsPure ==
    /\ td.pc \in {"once", "twice"} =>
          /\ td.heap[td.board.store].data = td.before
          /\ td.out1.store # td.board.store
    /\ td.pc = "twice" =>
          /\ contents(td.heap, td.out1) = contents(td.heap, td.out2)
          /\ td.out2.store # td.board.store

\* two calls made on a batch of boards that has a non-zero cell, and on one
\* board of rank 3
C14_Witness ==
    /\ td.pc = "twice" /\ ndim(td.board) = 4 /\ td.board.shape[1] > 1
    /\ \E p \in DOMAIN td.before : td.before[p] # 0

C14_WitnessSingle ==
    /\ td.pc = "twice" /\ ndim(td.board) = 3
    /\ \E p \in DOMAIN td.before : td.before[p] # 0

\* C15: save_model, load_model, save_buffer and load_buffer called with an
\* iteration that is neither None nor an int raise, and the call has then
\* touched no file, no parameter and no buffer.
C15_BadIterationFailsFirst ==
    [][last'.bad_iter
        => /\ last'.err # "none"
           /\ UNCHANGED <<net, grad, optimizer, disk, buffer, buffer_size, bufdisk>>]_vars

\* load_model was rejected although the files it would have read exist and
\* differ from the parameters in memory
C15_Witness ==
    /\ last.bad_iter /\ last.op = "load_model" /\ cls = DQN
    /\ disk[FileName(0, "")] \notin {Absent, net["_model"]}

C15_WitnessBuffer ==
    /\ last.bad_iter /\ last.op = "save_buffer" /\ buffer.size > 0

\* C16: after any sequence of reset_buffer, add_to_buffer, save_buffer and
\* load_buffer calls, the capacity the agent records in _buffer_size is the
\* capacity of its live Replay Store.
C16_RecordedCapacityIsLive == buffer_size = buffer.capacity

\* C17: for every row whose mask has a set bit, move returns a legal action
\* whose Q-value no legal action of that row exceeds.
C17_MoveIsBestLegal ==
    td.pc = "done" =>
        \A i \in 1..Len(td.action) :
            (\E a \in Actions : td.legal_moves[i][a] = 1)
                => LET chosen == td.action[i] + 1
                   IN /\ chosen \in Actions
                      /\ td.legal_moves[i][chosen] = 1
                      /\ \A b \in Actions :
                            td.legal_moves[i][b] = 1
                                => td.model_outputs[i][b] <= td.model_outputs[i][chosen]

\* a batch in which a row's largest output belongs to an illegal action and
\* comes before its legal ones
C17_Witness ==
    /\ td.pc = "done" /\ Len(td.action) > 1
    /\ \E i \in 1..Len(td.action) :
          /\ td.legal_moves[i][1] = 0
          /\ \E a \in Actions : td.legal_moves[i][a] = 1
          /\ \A a \in Actions :
                td.legal_moves[i][a] = 1
                    => td.model_outputs[i][a] < td.model_outputs[i][1]

====
